---- MODULE Spec2Model ----
(***************************************************************************)
(* Model of the traffic simulation's per-tick state machine                *)
(* (src/Project/src/main.cpp): the GLUT callbacks specialKey,              *)
(* specialKeyUp, keyboard and timer/update acting on the program's global  *)
(* variables.                                                              *)
(*                                                                         *)
(* The program's float variables are IEEE-754 binary32.  A float is held   *)
(* here as one integer: the sign times the bit pattern of its magnitude    *)
(* (biased exponent * 2^23 + fraction).  On this encoding the order of the *)
(* integers is the order of the floats, and +0 and -0 are both 0.  FAdd,   *)
(* FSub and FMul round to nearest, ties to even, as the hardware does.     *)
(***************************************************************************)
EXTENDS Integers, Sequences, FiniteSets, TLC

----------------------------------------------------------------------------
(* binary32 arithmetic *)

Pow2(n) == 2 ^ n

FAbs(a) == IF a < 0 THEN -a ELSE a

FNeg(a) == -a

Sgn(a) == IF a < 0 THEN -1 ELSE 1

\* The significand of a float, as an integer below 2^24.
Mant(a) ==
    LET b == FAbs(a)
    IN  IF b \div Pow2(23) = 0 THEN b % Pow2(23) ELSE Pow2(23) + (b % Pow2(23))

\* The exponent of the significand's unit: the value is Mant * 2^Expo.
Expo(a) ==
    LET b == FAbs(a)
    IN  IF b \div Pow2(23) = 0 THEN -149 ELSE (b \div Pow2(23)) - 150

RECURSIVE BitLenBelow(_)
BitLenBelow(n) == IF n = 0 THEN 0 ELSE 1 + BitLenBelow(n \div 2)

\* The number of bits of n, 0 <= n < 2^30.
BitLen(n) ==
    IF n >= Pow2(29) THEN 30
    ELSE IF n >= Pow2(28) THEN 29
    ELSE IF n >= Pow2(27) THEN 28
    ELSE IF n >= Pow2(26) THEN 27
    ELSE IF n >= Pow2(25) THEN 26
    ELSE IF n >= Pow2(24) THEN 25
    ELSE BitLenBelow(n)

Max(a, b) == IF a >= b THEN a ELSE b

\* The float nearest to mag * 2^e (ties to even), mag >= 0 below 2^30.
Pack(mag, e) ==
    LET Rounded[g \in Int, x \in Int] ==
            IF g = 0 THEN 0
            ELSE LET k  == BitLen(g)
                     et == Max(x + k - 24, -149)
                     sh == et - x
                     m  == IF sh <= 0 THEN g * Pow2(-sh)
                           ELSE LET q    == g \div Pow2(sh)
                                    r    == g % Pow2(sh)
                                    half == Pow2(sh - 1)
                                IN  IF r > half \/ (r = half /\ q % 2 = 1)
                                    THEN q + 1 ELSE q
                 IN  (et + 149) * Pow2(23) + m
    IN  Rounded[mag, e]

\* n shifted right by sh, any bit shifted out kept as the lowest bit.
ShiftRightJam(n, sh) ==
    IF sh <= 0 THEN n * Pow2(-sh)
    ELSE IF sh >= 30 THEN (IF n = 0 THEN 0 ELSE 1)
    ELSE LET q == n \div Pow2(sh)
         IN  IF n % Pow2(sh) = 0 THEN q ELSE (q \div 2) * 2 + 1

FAdd(a, b) ==
    LET Sum[x \in Int, y \in Int] ==
            IF x = 0 THEN y
            ELSE IF y = 0 THEN x
            ELSE LET hi == IF FAbs(x) >= FAbs(y) THEN x ELSE y
                     lo == IF FAbs(x) >= FAbs(y) THEN y ELSE x
                     d  == Expo(hi) - Expo(lo)
                     A  == Mant(hi) * 8
                     B  == ShiftRightJam(Mant(lo), d - 3)
                     S  == IF Sgn(hi) = Sgn(lo) THEN A + B ELSE A - B
                 IN  Sgn(hi) * Pack(S, Expo(hi) - 3)
    IN  Sum[a, b]

FSub(a, b) == FAdd(a, FNeg(b))

FMul(a, b) ==
    LET Product[x \in Int, y \in Int] ==
            IF x = 0 \/ y = 0 THEN 0
            ELSE LET a1  == Mant(x) \div 4096
                     a0  == Mant(x) % 4096
                     b1  == Mant(y) \div 4096
                     b0  == Mant(y) % 4096
                     mid == a1 * b0 + a0 * b1
                     low == (mid % 4096) * 4096 + a0 * b0
                     H   == a1 * b1 + (mid \div 4096) + (low \div Pow2(24))
                     L   == low % Pow2(24)
                     P   == H * 64 + (IF L % Pow2(18) = 0 THEN L \div Pow2(18)
                                      ELSE ((L \div Pow2(19)) * 2) + 1)
                 IN  Sgn(x) * Sgn(y) * Pack(P, Expo(x) + Expo(y) + 18)
    IN  Product[a, b]

\* a / b for a divisor that is a power of two (its significand is 2^23):
\* the quotient is exact up to the final rounding.
FDivPow2(a, b) ==
    IF a = 0 THEN 0
    ELSE Sgn(a) * Sgn(b) * Pack(Mant(a), Expo(a) - Expo(b) - 23)

FMin(a, b) == IF b < a THEN b ELSE a

FMax(a, b) == IF a < b THEN b ELSE a


----------------------------------------------------------------------------
(* program constants (floats by their binary32 encoding) *)

updateInterval == 20

\* 0.5f
maxSpeed == 1056964608

\* 0.01f
acceleration == 1008981770

\* 0.005f
deceleration == 1000593162

\* 0.2f
turnAcceleration == 1045220557

\* 6.0f
maxTurnSpeed == 1086324736

\* 2.0f
minTurnSpeed == 1073741824

\* 1.0f
turnSpeedMultiplier == 1065353216

\* 0.0f
F0 == 0

\* 1.0f
F1 == 1065353216

\* 2 (int) as a float, the divisor of -maxSpeed / 2
F2 == 1073741824

\* 360, 315, 45, 135, 225 (int literals compared with a float)
F360 == 1135869952

F315 == 1134395392

F45 == 1110704128

F135 == 1124532224

F225 == 1130430464

\* 180 and the start position { 3, 0, 45 }
F180 == 1127481344

F3 == 1077936128

\* -6.0f, the z of localCameraOffset
FNeg6 == -1086324736

greenTime == 5000

yellowTime == 1000

redTime == 6000

totalCycle == greenTime + yellowTime + redTime

startPosition == [x |-> F3, y |-> F0, z |-> F45]

localCameraOffset == [x |-> F0, y |-> F0, z |-> FNeg6]

Keys == {"LEFT", "RIGHT", "UP", "DOWN"}

----------------------------------------------------------------------------
(* sin and cos as the program evaluates them,                              *)
(*   angleRadians = carDirection * M_PI / 180.0f;  sin(angleRadians),      *)
(* tabulated for every whole degree; a heading between two whole degrees   *)
(* takes the value of the nearest one.                                     *)

SinTab ==
    << 0, 1016002649, 1024389830, 1029070395, 1032772731, 1035108021,
      1037439749, 1039767203, 1041138533, 1042296924, 1043452116, 1044603759,
      1045751502, 1046894994, 1048033888, 1048871918, 1049436247, 1049997758,
      1050556282, 1051111647, 1051663683, 1052212225, 1052757104, 1053298153,
      1053835209, 1054368108, 1054896687, 1055420786, 1055940244, 1056454903,
      1056964608, 1057216905, 1057466570, 1057713527, 1057957700, 1058199016,
      1058437400, 1058672780, 1058905086, 1059134244, 1059360186, 1059582844,
      1059802149, 1060018034, 1060230434, 1060439283, 1060644519, 1060846079,
      1061043902, 1061237925, 1061428093, 1061614346, 1061796626, 1061974881,
      1062149053, 1062319091, 1062484942, 1062646558, 1062803886, 1062956881,
      1063105496, 1063249684, 1063389402, 1063524609, 1063655262, 1063781322,
      1063902750, 1064019509, 1064131564, 1064238880, 1064341426, 1064439169,
      1064532081, 1064620132, 1064703295, 1064781546, 1064854861, 1064923217,
      1064986594, 1065044971, 1065098332, 1065146661, 1065189941, 1065228161,
      1065261309, 1065289374, 1065312348, 1065330223, 1065342996, 1065350661,
      1065353216, 1065350661, 1065342996, 1065330223, 1065312348, 1065289374,
      1065261309, 1065228161, 1065189941, 1065146661, 1065098332, 1065044971,
      1064986593, 1064923217, 1064854861, 1064781546, 1064703295, 1064620131,
      1064532080, 1064439170, 1064341426, 1064238881, 1064131564, 1064019509,
      1063902749, 1063781321, 1063655262, 1063524608, 1063389402, 1063249684,
      1063105495, 1062956881, 1062803885, 1062646557, 1062484943, 1062319090,
      1062149053, 1061974880, 1061796627, 1061614347, 1061428093, 1061237926,
      1061043901, 1060846079, 1060644518, 1060439283, 1060230435, 1060018033,
      1059802149, 1059582843, 1059360187, 1059134246, 1058905085, 1058672782,
      1058437399, 1058199016, 1057957699, 1057713527, 1057466571, 1057216904,
      1056964609, 1056454901, 1055940244, 1055420788, 1054896686, 1054368110,
      1053835207, 1053298154, 1052757100, 1052212224, 1051663686, 1051111645,
      1050556283, 1049997755, 1049436247, 1048871921, 1048033885, 1046894998,
      1045751496, 1044603760, 1043452124, 1042296922, 1041138538, 1039767194,
      1037439753, 1035108008, 1032772731, 1029070419, 1024389818, 1016002677,
      -867941678, -1016002643, -1024389801, -1029070402, -1032772722, -1035108031,
      -1037439745, -1039767217, -1041138534, -1042296917, -1043452119, -1044603756,
      -1045751508, -1046894993, -1048033881, -1048871919, -1049436245, -1049997761,
      -1050556281, -1051111650, -1051663684, -1052212222, -1052757105, -1053298152,
      -1053835212, -1054368108, -1054896684, -1055420787, -1055940242, -1056454906,
      -1056964607, -1057216903, -1057466570, -1057713526, -1057957701, -1058199015,
      -1058437402, -1058672781, -1058905084, -1059134245, -1059360186, -1059582845,
      -1059802149, -1060018032, -1060230434, -1060439282, -1060644520, -1060846079,
      -1061043902, -1061237926, -1061428095, -1061614346, -1061796626, -1061974879,
      -1062149055, -1062319092, -1062484943, -1062646557, -1062803885, -1062956883,
      -1063105496, -1063249684, -1063389402, -1063524608, -1063655263, -1063781322,
      -1063902749, -1064019508, -1064131563, -1064238882, -1064341427, -1064439169,
      -1064532080, -1064620130, -1064703296, -1064781547, -1064854861, -1064923217,
      -1064986593, -1065044972, -1065098333, -1065146660, -1065189941, -1065228162,
      -1065261309, -1065289374, -1065312347, -1065330223, -1065342996, -1065350661,
      -1065353216, -1065350661, -1065342996, -1065330223, -1065312347, -1065289374,
      -1065261309, -1065228162, -1065189941, -1065146660, -1065098332, -1065044972,
      -1064986594, -1064923216, -1064854861, -1064781546, -1064703296, -1064620133,
      -1064532080, -1064439169, -1064341426, -1064238881, -1064131562, -1064019508,
      -1063902749, -1063781322, -1063655263, -1063524607, -1063389402, -1063249684,
      -1063105496, -1062956883, -1062803884, -1062646556, -1062484943, -1062319092,
      -1062149055, -1061974879, -1061796626, -1061614346, -1061428094, -1061237928,
      -1061043900, -1060846078, -1060644520, -1060439285, -1060230431, -1060018032,
      -1059802148, -1059582845, -1059360189, -1059134241, -1058905084, -1058672780,
      -1058437401, -1058199018, -1057957697, -1057713525, -1057466570, -1057216906,
      -1056964611, -1056454898, -1055940241, -1055420786, -1054896690, -1054368114,
      -1053835204, -1053298151, -1052757105, -1052212229, -1051663691, -1051111642,
      -1050556280, -1049997760, -1049436252, -1048871911, -1048033879, -1046894992,
      -1045751506, -1044603770, -1043452102, -1042296916, -1041138532, -1039767214,
      -1037439774, -1035107996, -1032772719, -1029070396, -1024389858, -1016002758 >>

CosTab ==
    << 1065353216, 1065350661, 1065342996, 1065330223, 1065312348, 1065289374,
      1065261309, 1065228161, 1065189941, 1065146661, 1065098332, 1065044971,
      1064986594, 1064923217, 1064854861, 1064781546, 1064703295, 1064620132,
      1064532081, 1064439169, 1064341426, 1064238880, 1064131564, 1064019509,
      1063902749, 1063781321, 1063655262, 1063524609, 1063389402, 1063249684,
      1063105495, 1062956881, 1062803886, 1062646557, 1062484943, 1062319091,
      1062149053, 1061974881, 1061796627, 1061614345, 1061428093, 1061237926,
      1061043901, 1060846079, 1060644519, 1060439283, 1060230434, 1060018034,
      1059802148, 1059582844, 1059360187, 1059134244, 1058905086, 1058672781,
      1058437400, 1058199016, 1057957700, 1057713526, 1057466570, 1057216905,
      1056964607, 1056454902, 1055940245, 1055420786, 1054896687, 1054368107,
      1053835208, 1053298151, 1052757105, 1052212226, 1051663684, 1051111646,
      1050556281, 1049997757, 1049436248, 1048871919, 1048033888, 1046894993,
      1045751499, 1044603755, 1043452119, 1042296925, 1041138533, 1039767200,
      1037439743, 1035108030, 1032772736, 1029070399, 1024389830, 1016002637,
      -859553070, -1016002620, -1024389821, -1029070390, -1032772732, -1035108025,
      -1037439755, -1039767195, -1041138531, -1042296922, -1043452117, -1044603761,
      -1045751505, -1046894991, -1048033886, -1048871918, -1049436247, -1049997760,
      -1050556283, -1051111645, -1051663683, -1052212225, -1052757104, -1053298154,
      -1053835211, -1054368110, -1054896686, -1055420789, -1055940244, -1056454901,
      -1056964609, -1057216904, -1057466571, -1057713527, -1057957699, -1058199016,
      -1058437399, -1058672782, -1058905085, -1059134243, -1059360187, -1059582843,
      -1059802150, -1060018033, -1060230435, -1060439283, -1060644518, -1060846080,
      -1061043901, -1061237927, -1061428093, -1061614344, -1061796627, -1061974880,
      -1062149054, -1062319091, -1062484943, -1062646557, -1062803885, -1062956881,
      -1063105495, -1063249685, -1063389402, -1063524608, -1063655262, -1063781321,
      -1063902750, -1064019509, -1064131565, -1064238881, -1064341426, -1064439170,
      -1064532080, -1064620132, -1064703295, -1064781546, -1064854861, -1064923217,
      -1064986594, -1065044971, -1065098332, -1065146661, -1065189941, -1065228161,
      -1065261309, -1065289374, -1065312348, -1065330223, -1065342996, -1065350661,
      -1065353216, -1065350661, -1065342996, -1065330223, -1065312348, -1065289374,
      -1065261309, -1065228161, -1065189941, -1065146661, -1065098332, -1065044971,
      -1064986593, -1064923217, -1064854861, -1064781546, -1064703295, -1064620131,
      -1064532081, -1064439169, -1064341426, -1064238881, -1064131563, -1064019509,
      -1063902749, -1063781322, -1063655263, -1063524609, -1063389403, -1063249683,
      -1063105495, -1062956882, -1062803886, -1062646558, -1062484942, -1062319091,
      -1062149052, -1061974880, -1061796628, -1061614345, -1061428094, -1061237925,
      -1061043901, -1060846080, -1060644519, -1060439284, -1060230433, -1060018034,
      -1059802147, -1059582844, -1059360185, -1059134243, -1058905086, -1058672783,
      -1058437397, -1058199014, -1057957700, -1057713528, -1057466572, -1057216902,
      -1056964605, -1056454903, -1055940246, -1055420791, -1054896681, -1054368105,
      -1053835209, -1053298156, -1052757110, -1052212219, -1051663681, -1051111647,
      -1050556285, -1049997765, -1049436242, -1048871916, -1048033890, -1046895002,
      -1045751517, -1044603749, -1043452113, -1042296927, -1041138543, -1039767172,
      -1037439732, -1035108018, -1032772741, -1029070439, -1024389774, -1016002590,
      843898414, 1016002603, 1024389780, 1029070446, 1032772744, 1035108021,
      1037439735, 1039767175, 1041138544, 1042296928, 1043452114, 1044603751,
      1045751487, 1046895004, 1048033891, 1048871917, 1049436242, 1049997751,
      1050556286, 1051111648, 1051663682, 1052212220, 1052757110, 1053298157,
      1053835210, 1054368105, 1054896682, 1055420791, 1055940247, 1056454904,
      1056964605, 1057216902, 1057466573, 1057713528, 1057957700, 1058199014,
      1058437397, 1058672783, 1058905086, 1059134244, 1059360185, 1059582841,
      1059802151, 1060018034, 1060230433, 1060439281, 1060644522, 1060846081,
      1061043902, 1061237925, 1061428091, 1061614348, 1061796628, 1061974881,
      1062149052, 1062319089, 1062484944, 1062646558, 1062803886, 1062956880,
      1063105494, 1063249685, 1063389403, 1063524609, 1063655261, 1063781320,
      1063902751, 1064019509, 1064131564, 1064238880, 1064341425, 1064439170,
      1064532081, 1064620131, 1064703294, 1064781547, 1064854862, 1064923217,
      1064986593, 1065044971, 1065098333, 1065146661, 1065189941, 1065228161,
      1065261308, 1065289374, 1065312348, 1065330223, 1065342996, 1065350661 >>

\* The whole degree nearest to a heading in [0, 360], taken modulo 360.
RoundDeg(h) ==
    LET sh == -Expo(h)
    IN  IF h <= 0 \/ sh > 24 THEN 0
        ELSE IF sh <= 0 THEN Mant(h) % 360
        ELSE ((Mant(h) + Pow2(sh - 1)) \div Pow2(sh)) % 360

SinF(h) == SinTab[RoundDeg(h) + 1]

CosF(h) == CosTab[RoundDeg(h) + 1]

----------------------------------------------------------------------------
(* bounds of the exploration: timer callbacks and input events per run *)

MaxTicks == 6

MaxEvents == 3

MaxTurnTicks == 38

MaxTurnEvents == 3

MaxDriveTicks == 56

MaxDriveEvents == 2

MaxSignalTicks == 1200

MaxSignalEvents == 2

MaxCycleTicks == 1200

MaxSpinTicks == 34

MaxSpinEvents == 2

MaxCurveTicks == 53

MaxCurveEvents == 2

MaxPedalTicks == 53

MaxPedalEvents == 2

MaxForwardTicks == 152

MaxForwardEvents == 2

MaxFairTicks == 600

MaxFairEvents == 1

----------------------------------------------------------------------------
(* state *)

VARIABLES
    counter, NS_Signal, WE_Signal,
    carPosition, carDirection, carHeading, carSpeed, turnInterpolation,
    isMovingForward, isMovingBackward, isTurningLeft, isTurningRight,
    worldCameraOffset,
    timersPending, \* timer callbacks registered with glutTimerFunc, not yet run
    nTicks,      \* number of timer callbacks run so far
    nEvents,     \* number of input callbacks run so far
    lastOp,      \* the callback that ran last
    repeated,    \* whether the same callback also ran just before it
    mark,        \* the signal state the observer recorded
    sinceMark,   \* ticks since the observer recorded it, -1 before it did
    turnRun,     \* the latest ticks that all read a turn flag set: their
                 \* number; that all read none set: minus their number
    driveRun,    \* the latest ticks that all read the forward flag set:
                 \* their number; that all read neither the forward nor the
                 \* backward flag set: minus their number
    driveFrom,   \* carSpeed before the first of these ticks
    redTicks     \* for each approach, the ticks it has been Red without a
                 \* break, 0 while it is not Red

signalVars == <<counter, NS_Signal, WE_Signal>>

flagVars == <<isMovingForward, isMovingBackward, isTurningLeft, isTurningRight>>

vehicleVars == <<carPosition, carDirection, carSpeed, turnInterpolation, flagVars>>

programVars ==
    <<signalVars, vehicleVars, carHeading, worldCameraOffset, timersPending>>

observerVars == <<mark, sinceMark, turnRun, driveRun, driveFrom, redTicks>>

countVars == <<nTicks, nEvents>>

opVars == <<lastOp, repeated>>

vars == <<programVars, countVars, opVars, observerVars>>

Init ==
    /\ counter = 0
    /\ NS_Signal = "Green"
    /\ WE_Signal = "Red"
    /\ carPosition = startPosition
    /\ carDirection = F180
    /\ carHeading = "N"
    /\ carSpeed = F0
    /\ turnInterpolation = F0
    /\ isMovingForward = FALSE
    /\ isMovingBackward = FALSE
    /\ isTurningLeft = FALSE
    /\ isTurningRight = FALSE
    /\ worldCameraOffset = localCameraOffset
    /\ timersPending = 1
    /\ nTicks = 0
    /\ nEvents = 0
    /\ lastOp = "init"
    /\ repeated = FALSE
    /\ mark = [counter |-> 0, NS |-> "Green", WE |-> "Red"]
    /\ sinceMark = -1
    /\ turnRun = 0
    /\ driveRun = 0
    /\ driveFrom = F0
    /\ redTicks = [NS |-> 0, WE |-> 0]

----------------------------------------------------------------------------
(* update(): the vehicle *)

\* rotation of a vector about the vertical axis by deg degrees
computeRotatedVector(v, deg) ==
    [x |-> FAdd(FMul(v.x, CosF(deg)), FMul(v.z, SinF(deg))),
     y |-> v.y,
     z |-> FAdd(FNeg(FMul(v.x, SinF(deg))), FMul(v.z, CosF(deg)))]

\* SpeedStep testing the backward flag first
SpeedStepBackwardFirst(speed, fwd, bwd) ==
    IF bwd THEN FMax(FDivPow2(FNeg(maxSpeed), F2), FSub(speed, acceleration))
    ELSE IF fwd THEN FMin(maxSpeed, FAdd(speed, acceleration))
    ELSE IF speed > F0 THEN FMax(F0, FSub(speed, deceleration))
    ELSE IF speed < F0 THEN FMin(F0, FAdd(speed, deceleration))
    ELSE speed

\* SpeedStep with a decay that does not stop at 0
SpeedStepOvershoot(speed, fwd, bwd) ==
    IF fwd THEN FMin(maxSpeed, FAdd(speed, acceleration))
    ELSE IF bwd THEN FMax(FDivPow2(FNeg(maxSpeed), F2), FSub(speed, acceleration))
    ELSE IF speed > F0 THEN FSub(speed, deceleration)
    ELSE IF speed < F0 THEN FAdd(speed, deceleration)
    ELSE speed

\* SpeedStep reversing by the deceleration step
SpeedStepSlowReverse(speed, fwd, bwd) ==
    IF fwd THEN FMin(maxSpeed, FAdd(speed, acceleration))
    ELSE IF bwd THEN FMax(FDivPow2(FNeg(maxSpeed), F2), FSub(speed, deceleration))
    ELSE IF speed > F0 THEN FMax(F0, FSub(speed, deceleration))
    ELSE IF speed < F0 THEN FMin(F0, FAdd(speed, deceleration))
    ELSE speed

\* SpeedStep without the clamps to maxSpeed and -maxSpeed / 2
SpeedStepNoClamp(speed, fwd, bwd) ==
    IF fwd THEN FAdd(speed, acceleration)
    ELSE IF bwd THEN FSub(speed, acceleration)
    ELSE IF speed > F0 THEN FMax(F0, FSub(speed, deceleration))
    ELSE IF speed < F0 THEN FMin(F0, FAdd(speed, deceleration))
    ELSE speed

\* carSpeed after the speed step
SpeedStep(speed, fwd, bwd) ==
    IF fwd THEN FMin(maxSpeed, FAdd(speed, acceleration))
    ELSE IF bwd THEN FMax(FDivPow2(FNeg(maxSpeed), F2), FSub(speed, acceleration))
    ELSE IF speed > F0 THEN FMax(F0, FSub(speed, deceleration))
    ELSE IF speed < F0 THEN FMin(F0, FAdd(speed, deceleration))
    ELSE speed

\* TurnSpeed growing with the speed instead of falling
TurnSpeedInverted(speed) ==
    LET speedFactor == FDivPow2(FAbs(speed), maxSpeed)
    IN  FMul(FAdd(minTurnSpeed,
                  FMul(FSub(maxTurnSpeed, minTurnSpeed), speedFactor)),
             turnSpeedMultiplier)

\* currentTurnSpeed, from the speed after the speed step
TurnSpeed(speed) ==
    LET speedFactor == FDivPow2(FAbs(speed), maxSpeed)
    IN  FMul(FAdd(minTurnSpeed,
                  FMul(FSub(maxTurnSpeed, minTurnSpeed), FSub(F1, speedFactor))),
             turnSpeedMultiplier)

\* TurnInterpStep without the clamps to 1 and 0
TurnInterpStepNoClamp(ti, left, right) ==
    IF left \/ right THEN FAdd(ti, turnAcceleration)
    ELSE FSub(ti, turnAcceleration)

\* TurnInterpStep reading the left flag only
TurnInterpStepLeftOnly(ti, left, right) ==
    IF left THEN FMin(F1, FAdd(ti, turnAcceleration))
    ELSE FMax(F0, FSub(ti, turnAcceleration))

\* turnInterpolation after the smoothing step
TurnInterpStep(ti, left, right) ==
    IF left \/ right THEN FMin(F1, FAdd(ti, turnAcceleration))
    ELSE FMax(F0, FSub(ti, turnAcceleration))

RECURSIVE WrapDown(_)
WrapDown(d) == IF d >= F360 THEN WrapDown(FSub(d, F360)) ELSE d

RECURSIVE WrapUp(_)
WrapUp(d) == IF d < F0 THEN WrapUp(FAdd(d, F360)) ELSE d

\* the two while loops that bring carDirection back into range
Normalize(d) == WrapUp(WrapDown(d))

\* carDirection after the turn, ti being the turnInterpolation of this tick
HeadingStep(d, turnSpeed, ti, left, right) ==
    IF ti > F0
    THEN LET turnAmount == FMul(turnSpeed, ti)
             d1 == IF left THEN FAdd(d, turnAmount) ELSE d
             d2 == IF right THEN FSub(d1, turnAmount) ELSE d1
         IN  Normalize(d2)
    ELSE d

\* carPosition after the move: speed is the new speed, d the old heading
PositionStep(p, speed, d) ==
    [x |-> FAdd(p.x, FMul(speed, SinF(d))),
     y |-> p.y,
     z |-> FAdd(p.z, FMul(speed, CosF(d)))]

\* HeadingLabel without the wraparound: north only from 315 up
HeadingLabelNoWrap(d) ==
    IF d >= F315 THEN "N"
    ELSE IF d < F135 THEN "E"
    ELSE IF d >= F135 /\ d < F225 THEN "S"
    ELSE "W"

\* carHeading, the compass label of heading d
HeadingLabel(d) ==
    IF d >= F315 \/ d < F45 THEN "N"
    ELSE IF d >= F45 /\ d < F135 THEN "E"
    ELSE IF d >= F135 /\ d < F225 THEN "S"
    ELSE "W"

(* update(): the signals *)

\* CounterStep with the wrap tested before the increment
CounterStepWrapFirst(c) ==
    IF c >= totalCycle THEN updateInterval ELSE c + updateInterval

\* CounterStep wrapping on counter > totalCycle
CounterStepLateWrap(c) ==
    IF c + updateInterval > totalCycle THEN 0 ELSE c + updateInterval

CounterStep(c) ==
    IF c + updateInterval >= totalCycle THEN 0 ELSE c + updateInterval

\* NS_Phase turning yellow on counter > greenTime
NS_PhaseLateYellow(c) ==
    IF c <= greenTime THEN "Green"
    ELSE IF c < greenTime + yellowTime THEN "Yellow"
    ELSE "Red"

\* NS_Phase with the yellow phase left out
NS_PhaseNoYellow(c) ==
    IF c < greenTime + yellowTime THEN "Green" ELSE "Red"

NS_Phase(c) ==
    IF c < greenTime THEN "Green"
    ELSE IF c < greenTime + yellowTime THEN "Yellow"
    ELSE "Red"

\* WE_Phase with the yellow phase left out
WE_PhaseNoYellow(c) ==
    IF c < greenTime THEN "Red"
    ELSE IF c < greenTime + yellowTime THEN "Red"
    ELSE "Green"

\* WE_Phase turning green as soon as the north-south green ends
WE_PhaseEarlyGreen(c) ==
    IF c < greenTime THEN "Red"
    ELSE IF c > totalCycle - yellowTime THEN "Yellow"
    ELSE "Green"

WE_Phase(c) ==
    IF c < greenTime THEN "Red"
    ELSE IF c < greenTime + yellowTime THEN "Red"
    ELSE IF c > totalCycle - yellowTime THEN "Yellow"
    ELSE "Green"

\* an update that moves the car along the heading it has just turned to
UpdateTurnFirst ==
    \E speed \in {SpeedStep(carSpeed, isMovingForward, isMovingBackward)} :
    \E ti \in {TurnInterpStep(turnInterpolation, isTurningLeft, isTurningRight)} :
    \E dir \in {HeadingStep(carDirection, TurnSpeed(speed), ti,
                            isTurningLeft, isTurningRight)} :
        /\ carSpeed' = speed
        /\ turnInterpolation' = ti
        /\ carDirection' = dir
        /\ carPosition' = PositionStep(carPosition, speed, dir)
        /\ carHeading' = HeadingLabel(dir)
        /\ worldCameraOffset' = computeRotatedVector(localCameraOffset, dir)
        /\ counter' = CounterStep(counter)
        /\ NS_Signal' = NS_Phase(CounterStep(counter))
        /\ WE_Signal' = WE_Phase(CounterStep(counter))
        /\ UNCHANGED flagVars

\* update(): speed, ti and dir are the values the code assigns to carSpeed,
\* turnInterpolation and carDirection, each computed once.
Update ==
    \E speed \in {SpeedStep(carSpeed, isMovingForward, isMovingBackward)} :
    \E ti \in {TurnInterpStep(turnInterpolation, isTurningLeft, isTurningRight)} :
    \E dir \in {HeadingStep(carDirection, TurnSpeed(speed), ti,
                            isTurningLeft, isTurningRight)} :
        /\ carSpeed' = speed
        /\ turnInterpolation' = ti
        /\ carDirection' = dir
        /\ carPosition' = PositionStep(carPosition, speed, carDirection)
        /\ carHeading' = HeadingLabel(dir)
        /\ worldCameraOffset' = computeRotatedVector(localCameraOffset, dir)
        /\ counter' = CounterStep(counter)
        /\ NS_Signal' = NS_Phase(CounterStep(counter))
        /\ WE_Signal' = WE_Phase(CounterStep(counter))
        /\ UNCHANGED flagVars

\* the observer's count of the ticks an approach has been Red
ObserveRed ==
    redTicks' = [NS |-> IF NS_Signal = "Red" /\ NS_Signal' = "Red"
                        THEN redTicks.NS + 1 ELSE 0,
                 WE |-> IF WE_Signal = "Red" /\ WE_Signal' = "Red"
                        THEN redTicks.WE + 1 ELSE 0]

\* what the observers note of a timer callback
ObserveTick ==
    /\ nTicks' = nTicks + 1
    /\ lastOp' = "tick"
    /\ repeated' = (lastOp = "tick")
    /\ sinceMark' = IF sinceMark < 0 THEN sinceMark ELSE sinceMark + 1
    /\ turnRun' = IF isTurningLeft \/ isTurningRight
                  THEN (IF turnRun > 0 THEN turnRun + 1 ELSE 1)
                  ELSE (IF turnRun < 0 THEN turnRun - 1 ELSE -1)
    /\ driveRun' = IF isMovingForward
                   THEN (IF driveRun > 0 THEN driveRun + 1 ELSE 1)
                   ELSE IF isMovingBackward THEN 0
                   ELSE (IF driveRun < 0 THEN driveRun - 1 ELSE -1)
    /\ driveFrom' = IF \/ isMovingForward /\ driveRun > 0
                       \/ ~isMovingForward /\ ~isMovingBackward /\ driveRun < 0
                    THEN driveFrom
                    ELSE carSpeed
    /\ ObserveRed
    /\ UNCHANGED <<mark, nEvents>>

\* a timer callback that registers two callbacks for the next interval
TickRearmTwice(maxTicks) ==
    /\ nTicks < maxTicks
    /\ timersPending > 0
    /\ Update
    /\ timersPending' = (timersPending - 1) + 2
    /\ ObserveTick

\* timer(): the pending callback runs, does one update and registers the next
Tick(maxTicks) ==
    /\ nTicks < maxTicks
    /\ timersPending > 0
    /\ Update
    /\ timersPending' = (timersPending - 1) + 1
    /\ ObserveTick

----------------------------------------------------------------------------
(* the input callbacks *)

SetFlag(key, value) ==
    /\ isTurningLeft' = IF key = "LEFT" THEN value ELSE isTurningLeft
    /\ isTurningRight' = IF key = "RIGHT" THEN value ELSE isTurningRight
    /\ isMovingForward' = IF key = "UP" THEN value ELSE isMovingForward
    /\ isMovingBackward' = IF key = "DOWN" THEN value ELSE isMovingBackward

\* a key press that also steps the speed itself, as well as setting the flag
specialKeyDirect(key) ==
    /\ SetFlag(key, TRUE)
    /\ carSpeed' = IF key = "UP" THEN FMin(maxSpeed, FAdd(carSpeed, acceleration))
                   ELSE IF key = "DOWN"
                   THEN FMax(FDivPow2(FNeg(maxSpeed), F2),
                             FSub(carSpeed, acceleration))
                   ELSE carSpeed
    /\ worldCameraOffset' = computeRotatedVector(localCameraOffset, carDirection)
    /\ lastOp' = "press"
    /\ repeated' = (lastOp = "press")
    /\ UNCHANGED <<signalVars, carPosition, carDirection,
                   turnInterpolation, carHeading, observerVars>>

\* glutSpecialFunc: an arrow key goes down
specialKey(key) ==
    /\ SetFlag(key, TRUE)
    /\ worldCameraOffset' = computeRotatedVector(localCameraOffset, carDirection)
    /\ lastOp' = "press"
    /\ repeated' = (lastOp = "press")
    /\ UNCHANGED <<signalVars, carPosition, carDirection, carSpeed,
                   turnInterpolation, carHeading, observerVars>>

specialKeyUp(key) ==
    /\ SetFlag(key, FALSE)
    /\ lastOp' = "release"
    /\ repeated' = (lastOp = "release")
    /\ UNCHANGED <<signalVars, carPosition, carDirection, carSpeed,
                   turnInterpolation, carHeading, worldCameraOffset,
                   observerVars>>

\* a reset that moves the car back by the start offset instead of to the start
KeyboardResetRelative ==
    /\ carPosition' = [x |-> F3, y |-> F0, z |-> FAdd(carPosition.z, F45)]
    /\ carDirection' = F180
    /\ carSpeed' = F0
    /\ turnInterpolation' = F0
    /\ isMovingForward' = FALSE
    /\ isMovingBackward' = FALSE
    /\ isTurningLeft' = FALSE
    /\ isTurningRight' = FALSE
    /\ lastOp' = "reset"
    /\ repeated' = (lastOp = "reset")
    /\ UNCHANGED <<signalVars, carHeading, worldCameraOffset, observerVars>>

\* a reset that restores position, heading and speed only
KeyboardResetNoFlags ==
    /\ carPosition' = startPosition
    /\ carDirection' = F180
    /\ carSpeed' = F0
    /\ lastOp' = "reset"
    /\ repeated' = (lastOp = "reset")
    /\ UNCHANGED <<signalVars, turnInterpolation, flagVars, carHeading,
                   worldCameraOffset, observerVars>>

\* a reset that also restarts the signal cycle
KeyboardResetSignals ==
    /\ carPosition' = startPosition
    /\ carDirection' = F180
    /\ carSpeed' = F0
    /\ turnInterpolation' = F0
    /\ isMovingForward' = FALSE
    /\ isMovingBackward' = FALSE
    /\ isTurningLeft' = FALSE
    /\ isTurningRight' = FALSE
    /\ counter' = 0
    /\ NS_Signal' = "Green"
    /\ WE_Signal' = "Red"
    /\ lastOp' = "reset"
    /\ repeated' = (lastOp = "reset")
    /\ UNCHANGED <<carHeading, worldCameraOffset, observerVars>>

\* keyboard 'r' / 'R'
KeyboardReset ==
    /\ carPosition' = startPosition
    /\ carDirection' = F180
    /\ carSpeed' = F0
    /\ turnInterpolation' = F0
    /\ isMovingForward' = FALSE
    /\ isMovingBackward' = FALSE
    /\ isTurningLeft' = FALSE
    /\ isTurningRight' = FALSE
    /\ lastOp' = "reset"
    /\ repeated' = (lastOp = "reset")
    /\ UNCHANGED <<signalVars, carHeading, worldCameraOffset, observerVars>>

\* a brake that falls through into the turn state
KeyboardBrakeStopsTurn ==
    /\ carSpeed' = F0
    /\ turnInterpolation' = F0
    /\ isMovingForward' = FALSE
    /\ isMovingBackward' = FALSE
    /\ isTurningLeft' = FALSE
    /\ isTurningRight' = FALSE
    /\ lastOp' = "brake"
    /\ repeated' = (lastOp = "brake")
    /\ UNCHANGED <<signalVars, carPosition, carDirection, carHeading,
                   worldCameraOffset, observerVars>>

\* keyboard 'b' / 'B'
KeyboardBrake ==
    /\ carSpeed' = F0
    /\ isMovingForward' = FALSE
    /\ isMovingBackward' = FALSE
    /\ lastOp' = "brake"
    /\ repeated' = (lastOp = "brake")
    /\ UNCHANGED <<signalVars, carPosition, carDirection, turnInterpolation,
                   isTurningLeft, isTurningRight, carHeading, worldCameraOffset,
                   observerVars>>

\* a timer callback that registers no callback for the next interval
TickForeverNoRearm ==
    /\ timersPending > 0
    /\ Update
    /\ timersPending' = timersPending - 1
    /\ nTicks' = IF nTicks < MaxFairTicks THEN nTicks + 1 ELSE nTicks
    /\ lastOp' = "tick"
    /\ repeated' = (lastOp = "tick")
    /\ ObserveRed
    /\ UNCHANGED <<mark, sinceMark, turnRun, driveRun, driveFrom, nEvents>>

\* timer(), for as long as the program runs: the observers count the ticks up
\* to MaxFairTicks and no further, and do not follow the car
TickForever ==
    /\ timersPending > 0
    /\ Update
    /\ timersPending' = (timersPending - 1) + 1
    /\ nTicks' = IF nTicks < MaxFairTicks THEN nTicks + 1 ELSE nTicks
    /\ lastOp' = "tick"
    /\ repeated' = (lastOp = "tick")
    /\ ObserveRed
    /\ UNCHANGED <<mark, sinceMark, turnRun, driveRun, driveFrom, nEvents>>

\* An input event at any time of the run; the observers count the events up
\* to MaxFairEvents and no further.
EventForever ==
    /\ nEvents' = IF nEvents < MaxFairEvents THEN nEvents + 1 ELSE nEvents
    /\ UNCHANGED <<nTicks, timersPending>>

\* An input event, while the run's budget of events lasts.
Event(maxEvents) ==
    /\ nEvents < maxEvents
    /\ nEvents' = nEvents + 1
    /\ UNCHANGED <<nTicks, timersPending>>

\* ticks in one signal cycle
CycleTicks == totalCycle \div updateInterval

\* The observer records the signal state, to compare it a cycle later; it
\* forgets it once the cycle has passed.
Mark ==
    /\ sinceMark < 0
    /\ nTicks + CycleTicks <= MaxCycleTicks
    /\ mark' = [counter |-> counter, NS |-> NS_Signal, WE |-> WE_Signal]
    /\ sinceMark' = 0
    /\ UNCHANGED <<programVars, countVars, opVars, turnRun, driveRun, driveFrom,
                   redTicks>>

Forget ==
    /\ sinceMark >= CycleTicks
    /\ mark' = [counter |-> 0, NS |-> "Green", WE |-> "Red"]
    /\ sinceMark' = -1
    /\ UNCHANGED <<programVars, countVars, opVars, turnRun, driveRun, driveFrom,
                   redTicks>>

----------------------------------------------------------------------------
(* specifications *)

\* every callback, in any order
Next ==
    \/ Tick(MaxTicks)
    \/ Event(MaxEvents) /\ \E key \in Keys : specialKey(key)
    \/ Event(MaxEvents) /\ \E key \in Keys : specialKeyUp(key)
    \/ Event(MaxEvents) /\ KeyboardReset
    \/ Event(MaxEvents) /\ KeyboardBrake

Spec == Init /\ [][Next]_vars

\* the car standing, steered with the left and right keys
NextTurn ==
    \/ Tick(MaxTurnTicks)
    \/ Event(MaxTurnEvents) /\ \E key \in {"LEFT", "RIGHT"} : specialKey(key)
    \/ Event(MaxTurnEvents) /\ \E key \in {"LEFT", "RIGHT"} : specialKeyUp(key)

SpecTurn == Init /\ [][NextTurn]_vars

\* the car driven straight with the up and down keys, brake and reset
NextDrive ==
    \/ Tick(MaxDriveTicks)
    \/ Event(MaxDriveEvents) /\ \E key \in {"UP", "DOWN"} : specialKey(key)
    \/ Event(MaxDriveEvents) /\ \E key \in {"UP", "DOWN"} : specialKeyUp(key)
    \/ Event(MaxDriveEvents) /\ KeyboardReset
    \/ Event(MaxDriveEvents) /\ KeyboardBrake

SpecDrive == Init /\ [][NextDrive]_vars

\* the signals over two cycles, the car at rest
NextSignal ==
    \/ Tick(MaxSignalTicks)
    \/ Event(MaxSignalEvents) /\ KeyboardReset
    \/ Event(MaxSignalEvents) /\ KeyboardBrake

SpecSignal == Init /\ [][NextSignal]_vars

\* the signals over two cycles, watched by the observer
NextCycle ==
    \/ Tick(MaxCycleTicks)
    \/ Mark
    \/ Forget

SpecCycle == Init /\ [][NextCycle]_vars

\* the car standing, turned through the compass with the left and right keys
NextSpin ==
    \/ Tick(MaxSpinTicks)
    \/ Event(MaxSpinEvents) /\ \E key \in {"LEFT", "RIGHT"} : specialKey(key)
    \/ Event(MaxSpinEvents) /\ \E key \in {"LEFT", "RIGHT"} : specialKeyUp(key)

SpecSpin == Init /\ [][NextSpin]_vars

\* whether the flag of an arrow key is set
KeyDown(key) ==
    \/ key = "LEFT" /\ isTurningLeft
    \/ key = "RIGHT" /\ isTurningRight
    \/ key = "UP" /\ isMovingForward
    \/ key = "DOWN" /\ isMovingBackward

\* the car driven through a left curve: the up and left keys go down, each
\* once, and stay down
NextCurve ==
    \/ Tick(MaxCurveTicks)
    \/ /\ Event(MaxCurveEvents)
       /\ \E key \in {"UP", "LEFT"} : ~KeyDown(key) /\ specialKey(key)

SpecCurve == Init /\ [][NextCurve]_vars

\* the car driven with both pedals: the up and down keys go down, each once,
\* and stay down
NextPedal ==
    \/ Tick(MaxPedalTicks)
    \/ /\ Event(MaxPedalEvents)
       /\ \E key \in {"UP", "DOWN"} : ~KeyDown(key) /\ specialKey(key)

SpecPedal == Init /\ [][NextPedal]_vars

\* the car driven with the up key alone, long enough to reach full speed and
\* to roll out
NextForward ==
    \/ Tick(MaxForwardTicks)
    \/ Event(MaxForwardEvents) /\ specialKey("UP")
    \/ Event(MaxForwardEvents) /\ specialKeyUp("UP")

SpecForward == Init /\ [][NextForward]_vars

\* the signals for as long as the program runs, the car at rest: the GLUT
\* main loop runs every timer callback that is due, and input callbacks at
\* any time in between
NextFair ==
    \/ TickForever
    \/ EventForever /\ KeyboardReset
    \/ EventForever /\ KeyboardBrake

SpecFair == Init /\ [][NextFair]_vars /\ WF_vars(TickForever)

----------------------------------------------------------------------------
(* properties *)

\* C1: in every reachable state the heading carDirection lies in [0, 360).
C1_HeadingInRange == carDirection >= F0 /\ carDirection < F360

\* -maxSpeed / 2
minSpeed == FDivPow2(FNeg(maxSpeed), F2)

\* C2: in every reachable state carSpeed lies in [-maxSpeed/2, maxSpeed].
C2_SpeedInRange == carSpeed >= minSpeed /\ carSpeed <= maxSpeed

\* the forward key held past the tick on which the clamp to maxSpeed acts
C2_Witness ==
    /\ lastOp = "tick"
    /\ isMovingForward
    /\ carSpeed = maxSpeed
    /\ nTicks > 51

\* C3: in every reachable state exactly one of NS_Signal and WE_Signal is
\* Red and the other is Green or Yellow; they are never both Green.
C3_ExactlyOneNonRed ==
    /\ (NS_Signal = "Red") # (WE_Signal = "Red")
    /\ ~(NS_Signal = "Green" /\ WE_Signal = "Green")
    /\ {NS_Signal, WE_Signal} \subseteq {"Green", "Yellow", "Red"}

\* a tick has brought the signals into the west-east yellow phase
C3_Witness ==
    /\ lastOp = "tick"
    /\ NS_Signal = "Red"
    /\ WE_Signal = "Yellow"

\* C4: the signal state recorded CycleTicks = 600 ticks ago is the signal
\* state now, from whatever state it was recorded; and the state after 600
\* ticks from the start is counter 0, NS Green, WE Red.
C4_Periodic ==
    /\ sinceMark = CycleTicks =>
           mark = [counter |-> counter, NS |-> NS_Signal, WE |-> WE_Signal]
    /\ nTicks = CycleTicks =>
           counter = 0 /\ NS_Signal = "Green" /\ WE_Signal = "Red"

\* a full cycle has passed since the observer recorded a west-east yellow
C4_Witness ==
    /\ sinceMark = CycleTicks
    /\ mark.WE = "Yellow"
    /\ mark.counter > 0

\* C5: after a tick, counter in [0, greenTime) gives NS Green and WE Red,
\* counter in [greenTime, greenTime + yellowTime) gives NS Yellow and WE Red.
C5_FirstHalf ==
    nTicks > 0 =>
        /\ (0 <= counter /\ counter < greenTime) =>
               (NS_Signal = "Green" /\ WE_Signal = "Red")
        /\ (greenTime <= counter /\ counter < greenTime + yellowTime) =>
               (NS_Signal = "Yellow" /\ WE_Signal = "Red")

\* the tick that brings counter to greenTime: the first yellow of NS
C5_Witness ==
    /\ lastOp = "tick"
    /\ counter = greenTime
    /\ NS_Signal = "Yellow"
    /\ WE_Signal = "Red"

\* C6: after a tick, counter in [greenTime + yellowTime, totalCycle -
\* yellowTime) gives NS Red and WE Green, counter in [totalCycle -
\* yellowTime, totalCycle) gives NS Red and WE Yellow.
C6_SecondHalf ==
    nTicks > 0 =>
        /\ (greenTime + yellowTime <= counter
                /\ counter < totalCycle - yellowTime) =>
               (NS_Signal = "Red" /\ WE_Signal = "Green")
        /\ (totalCycle - yellowTime <= counter /\ counter < totalCycle) =>
               (NS_Signal = "Red" /\ WE_Signal = "Yellow")

\* the Green-to-Yellow change of NS and the tick that brings counter to
\* greenTime are the same steps
C7_ChangeOnGreenTime ==
    /\ (NS_Signal = "Green" /\ NS_Signal' # "Green") =>
           (NS_Signal' = "Yellow" /\ counter' = greenTime)
    /\ (counter # greenTime /\ counter' = greenTime) =>
           (NS_Signal = "Green" /\ NS_Signal' = "Yellow")

\* C7: NS_Signal is Green after each of the first 249 ticks and Yellow, with
\* counter = 5000, after tick 250; in every cycle NS changes from Green to
\* Yellow exactly on the tick that brings counter to greenTime.
C7_GreenToYellow ==
    /\ []((nTicks >= 1 /\ nTicks < greenTime \div updateInterval) =>
              NS_Signal = "Green")
    /\ [](nTicks = greenTime \div updateInterval =>
              (NS_Signal = "Yellow" /\ counter = greenTime))
    /\ [][C7_ChangeOnGreenTime]_vars

\* the change of the second cycle
C7_Witness ==
    /\ lastOp = "tick"
    /\ nTicks = CycleTicks + (greenTime \div updateInterval)
    /\ counter = greenTime
    /\ NS_Signal = "Yellow"

\* C8: a reset performed right after a reset changes nothing of the
\* simulation state.
C8_ResetIdempotent ==
    [][(lastOp = "reset" /\ lastOp' = "reset") => programVars' = programVars]_vars

\* a second reset in a row, the first one made after the car had moved
C8_Witness ==
    /\ lastOp = "reset"
    /\ repeated
    /\ nTicks > 0
    /\ worldCameraOffset # localCameraOffset

\* C9: after reset the position is (3, 0, 45), the heading 180, speed and
\* turnInterpolation 0 and the four input flags false.
C9_ResetRestores ==
    lastOp = "reset" =>
        /\ carPosition = [x |-> F3, y |-> F0, z |-> F45]
        /\ carDirection = F180
        /\ carSpeed = F0
        /\ turnInterpolation = F0
        /\ ~isMovingForward /\ ~isMovingBackward
        /\ ~isTurningLeft /\ ~isTurningRight

\* a reset made after ticks that turned the car: the camera offset still
\* shows the heading the car had before the reset
C9_Witness ==
    /\ lastOp = "reset"
    /\ nTicks > 1
    /\ worldCameraOffset # localCameraOffset
    /\ worldCameraOffset # computeRotatedVector(localCameraOffset, F180)

\* C10: brake sets speed to 0 and clears the forward and backward flags, and
\* leaves the position, the heading, turnInterpolation, the turn flags and
\* the signal state as they were.
C10_BrakeFrame ==
    [][lastOp' = "brake" =>
          /\ carSpeed' = F0
          /\ ~isMovingForward' /\ ~isMovingBackward'
          /\ UNCHANGED <<carPosition, carDirection, turnInterpolation,
                         isTurningLeft, isTurningRight, signalVars>>]_vars

\* a brake made while the car, moved and turned by ticks, was still turning
C10_Witness ==
    /\ lastOp = "brake"
    /\ carSpeed = F0
    /\ carPosition # startPosition
    /\ carDirection # F180
    /\ turnInterpolation > F0
    /\ isTurningLeft

\* turnInterpolation over one tick: not down while a turn flag is set, not
\* up while none is
C11_Monotone ==
    nTicks' # nTicks =>
        /\ (isTurningLeft \/ isTurningRight) =>
               turnInterpolation' >= turnInterpolation
        /\ ~(isTurningLeft \/ isTurningRight) =>
               turnInterpolation' <= turnInterpolation

\* C11: over consecutive ticks that read a turn flag set, turnInterpolation
\* never decreases, is 1.0 from the 5th tick on; over consecutive ticks that
\* read no turn flag set, it never increases and is 0.0 from the 5th tick on.
C11_TurnSmoothing ==
    /\ [](turnRun >= 5 => turnInterpolation = F1)
    /\ [](turnRun <= -5 => turnInterpolation = F0)
    /\ [][C11_Monotone]_vars

\* carSpeed over one tick that reads neither the forward nor the backward
\* flag set: not up
C12_Decay ==
    (nTicks' # nTicks /\ ~isMovingForward /\ ~isMovingBackward) =>
        carSpeed' <= carSpeed

\* C12: after 50 consecutive ticks that read the forward flag set, the first
\* of them starting from speed 0, carSpeed is maxSpeed; over the ticks that
\* then read neither the forward nor the backward flag set, carSpeed never
\* increases and is 0 from the 100th on.
C12_ForwardScenario ==
    /\ []((driveRun = 50 /\ driveFrom = F0) => carSpeed = maxSpeed)
    /\ []((driveRun <= -100 /\ driveFrom = maxSpeed) => carSpeed = F0)
    /\ [][C12_Decay]_vars

\* C13: after a tick carHeading is N for a heading in [315, 360) or [0, 45),
\* E for [45, 135), S for [135, 225) and W for [225, 315).
C13_CompassLabel ==
    lastOp = "tick" =>
        /\ (\/ carDirection >= F315 /\ carDirection < F360
            \/ carDirection >= F0 /\ carDirection < F45) => carHeading = "N"
        /\ (carDirection >= F45 /\ carDirection < F135) => carHeading = "E"
        /\ (carDirection >= F135 /\ carDirection < F225) => carHeading = "S"
        /\ (carDirection >= F225 /\ carDirection < F315) => carHeading = "W"

\* a tick has turned the car through 0 into the northern range below 45
C13_Witness ==
    /\ lastOp = "tick"
    /\ carDirection > F0
    /\ carDirection < F45
    /\ carHeading = "N"
    /\ isTurningRight

\* C14: in every reachable state worldCameraOffset is localCameraOffset
\* rotated about the vertical axis by the current heading carDirection.
C14_ChaseOffsetDerived ==
    worldCameraOffset = computeRotatedVector(localCameraOffset, carDirection)

\* C15: the signal state is that of the number of ticks run, whatever input
\* events ran between them: counter is the elapsed time of nTicks ticks
\* within the cycle, and NS_Signal and WE_Signal are the phase of that time.
C15_SignalOfTicks ==
    LET elapsed == (nTicks * updateInterval) % totalCycle
    IN  /\ counter = elapsed
        /\ NS_Signal = NS_Phase(elapsed)
        /\ WE_Signal = WE_Phase(elapsed)

\* a reset made after ticks and other input events
C15_Witness ==
    /\ lastOp = "reset"
    /\ nTicks > 2
    /\ nEvents > 2
    /\ counter = nTicks * updateInterval

\* the claim as made: every step that is neither a tick nor a reset leaves
\* the vehicle state, input flags included, unchanged
C16_OnlyTickAndReset ==
    [][lastOp' \notin {"tick", "reset"} => UNCHANGED vehicleVars]_vars

\* C16: position, heading and turnInterpolation are changed only by the tick
\* and by reset; speed only by the tick, reset and brake; the input flags
\* only by the press and release events, by reset and by brake, which leaves
\* the turn flags alone; the tick changes no flag.
C16_VehicleFrame ==
    [][/\ lastOp' \notin {"tick", "reset"} =>
              UNCHANGED <<carPosition, carDirection, turnInterpolation>>
       /\ lastOp' \notin {"tick", "reset", "brake"} => UNCHANGED carSpeed
       /\ lastOp' = "tick" => UNCHANGED flagVars
       /\ lastOp' = "brake" => UNCHANGED <<isTurningLeft, isTurningRight>>]_vars

\* an arrow key pressed while the car was moving and turning
C16_Witness ==
    /\ lastOp = "press"
    /\ carSpeed # F0
    /\ turnInterpolation > F0
    /\ carDirection # F180
    /\ carPosition # startPosition

\* one tick, seen from the flags as the input events before it left them:
\* it changes no flag, and its speed, turn-interpolation and heading steps
\* all act on these flag values
C17_TickReadsFlags ==
    nTicks' # nTicks =>
        /\ UNCHANGED flagVars
        /\ isMovingForward =>
               (carSpeed' = maxSpeed \/ carSpeed' > carSpeed)
        /\ (~isMovingForward /\ isMovingBackward) =>
               (carSpeed' = minSpeed \/ carSpeed' < carSpeed)
        /\ (~isMovingForward /\ ~isMovingBackward) =>
               (carSpeed' = F0 \/ FAbs(carSpeed') < FAbs(carSpeed))
        /\ (isTurningLeft \/ isTurningRight) =>
               (turnInterpolation' = F1 \/ turnInterpolation' > turnInterpolation)
        /\ (~isTurningLeft /\ ~isTurningRight) =>
               (turnInterpolation' = F0 \/ turnInterpolation' < turnInterpolation)
        /\ (isTurningLeft # isTurningRight) => carDirection' # carDirection
        /\ (~isTurningLeft /\ ~isTurningRight) => carDirection' = carDirection

\* C17: every tick runs as one step between input events: the flag values
\* the press and release events before it have set are the ones its speed,
\* turn-interpolation and heading steps act on, and no flag changes in it.
C17_FlagsVisibleToNextTick == [][C17_TickReadsFlags]_vars

\* a turn key pressed between two ticks: the tick after it, the first to read
\* a turn flag set, has turned the car
C17_Witness ==
    /\ lastOp = "tick"
    /\ nTicks > 2
    /\ turnRun = 1
    /\ turnInterpolation > F0
    /\ carDirection # F180

\* one timer callback: one update, the counter moved on by updateInterval
\* within the cycle, and one callback registered in place of the one run
C18_OneUpdate ==
    nTicks' # nTicks =>
        /\ counter' = (counter + updateInterval) % totalCycle
        /\ timersPending' = timersPending

\* C18: exactly one timer callback is pending in every state, and every
\* timer callback moves the counter on by exactly updateInterval, back to 0
\* at the end of the cycle.
C18_OneTimer ==
    /\ [](timersPending = 1)
    /\ [][C18_OneUpdate]_vars

\* the callback that ends the first cycle has run and armed the next
C18_Witness ==
    /\ lastOp = "tick"
    /\ nTicks = CycleTicks
    /\ counter = 0
    /\ timersPending = 1

\* C19: in every reachable state turnInterpolation lies in [0, 1].
C19_TurnInterpInRange ==
    turnInterpolation >= F0 /\ turnInterpolation <= F1

\* a turn key held past the tick that reaches 1.0: the clamp has acted
C19_Witness ==
    /\ lastOp = "tick"
    /\ turnRun > 5
    /\ turnInterpolation = F1

\* the counter over one tick: up by updateInterval, or back to 0 when that
\* would reach totalCycle, and only then
C20_CounterStep ==
    nTicks' # nTicks =>
        IF counter + updateInterval = totalCycle
        THEN counter' = 0
        ELSE counter' = counter + updateInterval

\* C20: in every reachable state counter is a multiple of updateInterval
\* with 0 <= counter < totalCycle; a tick adds exactly updateInterval to it,
\* or sets it to 0 exactly when it would reach totalCycle.
C20_CounterInCycle ==
    /\ [](counter % updateInterval = 0)
    /\ [](0 <= counter /\ counter < totalCycle)
    /\ [][C20_CounterStep]_vars

\* the second wrap: two full cycles of ticks, none lost
C20_Witness ==
    /\ lastOp = "tick"
    /\ nTicks = 2 * CycleTicks
    /\ counter = 0

\* the speed over one tick that reads the forward flag set, or the backward
\* flag set and the forward flag not
C21_SpeedStep ==
    nTicks' # nTicks =>
        /\ isMovingForward =>
               LET up == FAdd(carSpeed, acceleration)
               IN  carSpeed' = IF up > maxSpeed THEN maxSpeed ELSE up
        /\ (isMovingBackward /\ ~isMovingForward) =>
               LET down == FSub(carSpeed, acceleration)
               IN  carSpeed' = IF down < minSpeed THEN minSpeed ELSE down

C22_DecayStep ==
    (nTicks' # nTicks /\ ~isMovingForward /\ ~isMovingBackward) =>
        /\ carSpeed > F0 =>
               LET less == FSub(carSpeed, deceleration)
               IN  carSpeed' = IF less > F0 THEN less ELSE F0
        /\ carSpeed < F0 =>
               LET more == FAdd(carSpeed, deceleration)
               IN  carSpeed' = IF more < F0 THEN more ELSE F0
        /\ carSpeed = F0 => carSpeed' = F0

\* C22: on a tick with neither the forward nor the backward flag set, the
\* speed moves toward 0 by the deceleration step or becomes exactly 0, its
\* sign never flips, and speed 0 stays 0.
C22_FrictionDecay == [][C22_DecayStep]_vars

\* a car driven forward for some ticks has rolled out to exactly 0
C22_Witness ==
    /\ lastOp = "tick"
    /\ driveRun < -8
    /\ driveFrom > acceleration
    /\ carSpeed = F0

\* the heading over one tick that does not read both turn flags set: moved,
\* to the left or to the right, by the turn speed of this tick times the
\* turnInterpolation of this tick
C23_TurnStep ==
    (nTicks' # nTicks /\ ~(isTurningLeft /\ isTurningRight)) =>
        LET turnAmount == FMul(TurnSpeed(carSpeed'), turnInterpolation')
        IN  carDirection' \in {Normalize(FAdd(carDirection, turnAmount)),
                               Normalize(FSub(carDirection, turnAmount))}

\* C23: on every tick the heading changes by turnSpeed x turnInterpolation,
\* the turnInterpolation being that of the tick: also on the ticks after the
\* release of the turn key, while turnInterpolation is still above 0.
C23_SmoothTurn == [][C23_TurnStep]_vars

\* minTurn + (maxTurn - minTurn) x (1 - |speed| / maxSpeed) is turn
C24_IsFormula(speed, turn) ==
    \E ratio \in {FDivPow2(FAbs(speed), maxSpeed)} :
    \E rest \in {FSub(F1, ratio)} :
    \E span \in {FMul(FSub(maxTurnSpeed, minTurnSpeed), rest)} :
        turn = FAdd(minTurnSpeed, span)

\* the turn speed of the current speed: the formula's, within [2, 6], 6 at
\* rest and 2 at maxSpeed
C24_TurnSpeedRange ==
    \E turn \in {TurnSpeed(carSpeed)} :
        /\ C24_IsFormula(carSpeed, turn)
        /\ turn >= F2
        /\ turn <= FNeg(FNeg6)
        /\ carSpeed = F0 => turn = FNeg(FNeg6)
        /\ carSpeed = maxSpeed => turn = F2

\* one tick: a left turn moves the heading by the turn speed of the new
\* speed times the new turnInterpolation; and the turn speed does not fall
\* when |speed| falls, nor rise when |speed| rises
C24_TurnSpeedStep ==
    nTicks' # nTicks =>
        \E before \in {TurnSpeed(carSpeed)} :
        \E after \in {TurnSpeed(carSpeed')} :
        \E turnAmount \in {FMul(after, turnInterpolation')} :
            /\ (isTurningLeft /\ ~isTurningRight) =>
                   carDirection' = Normalize(FAdd(carDirection, turnAmount))
            /\ FAbs(carSpeed') <= FAbs(carSpeed) => after >= before
            /\ FAbs(carSpeed') >= FAbs(carSpeed) => after <= before

C25_PositionStep ==
    nTicks' # nTicks =>
        \E dx \in {FMul(carSpeed', SinF(carDirection))} :
        \E dz \in {FMul(carSpeed', CosF(carDirection))} :
            /\ carPosition'.x = FAdd(carPosition.x, dx)
            /\ carPosition'.y = carPosition.y
            /\ carPosition'.z = FAdd(carPosition.z, dz)
            /\ carSpeed' = F0 => carPosition' = carPosition

\* C25: each tick changes the position by (s sin h, 0, s cos h), s being the
\* speed after the tick's speed step and h the heading before the tick's
\* turn; y never changes, and a tick with s = 0 leaves the position as it is.
C25_PositionIntegration == [][C25_PositionStep]_vars

\* the car has driven through a turn: it has left the line x = 3 it started
\* on, and is still moving and turning
C25_Witness ==
    /\ lastOp = "tick"
    /\ carSpeed > F0
    /\ turnInterpolation = F1
    /\ carDirection > F225
    /\ carPosition.x # startPosition.x
    /\ carPosition.z # startPosition.z
    /\ carPosition.y = startPosition.y

\* C26: in every reachable state, the initial state and the states after a
\* reset included, carHeading is the compass label of the current heading
\* carDirection.
C26_LabelOfHeading ==
    carHeading =
        IF carDirection >= F315 \/ carDirection < F45 THEN "N"
        ELSE IF carDirection < F135 THEN "E"
        ELSE IF carDirection < F225 THEN "S"
        ELSE "W"

\* one tick that reads both turn flags set: the heading as it was, and
\* turnInterpolation one step up, at most 1.0
C27_BothTurnStep ==
    (nTicks' # nTicks /\ isTurningLeft /\ isTurningRight) =>
        /\ carDirection' = carDirection
        /\ \E up \in {FAdd(turnInterpolation, turnAcceleration)} :
               turnInterpolation' = IF up > F1 THEN F1 ELSE up

\* C27: on a tick where both turn flags are set the heading is unchanged and
\* turnInterpolation ramps up toward 1.0 as for a single held turn key.
C27_BothTurnFlags == [][C27_BothTurnStep]_vars

\* the speed over one tick that reads both the forward and the backward flag
\* set: up by the acceleration step, at most maxSpeed, and never down
C28_BothPedalsStep ==
    (nTicks' # nTicks /\ isMovingForward /\ isMovingBackward) =>
        \E up \in {FAdd(carSpeed, acceleration)} :
            /\ carSpeed' = IF up > maxSpeed THEN maxSpeed ELSE up
            /\ carSpeed' >= carSpeed

\* C28: on a tick where both the forward and the backward flag are set the
\* speed is updated as if only forward were set, min(maxSpeed, speed +
\* acceleration); the backward flag has no effect.
C28_ForwardPriority == [][C28_BothPedalsStep]_vars

\* the up key pressed while the car was reversing with the down key held,
\* and both held until the clamp to maxSpeed
C28_Witness ==
    /\ lastOp = "tick"
    /\ isMovingForward
    /\ isMovingBackward
    /\ driveFrom < F0
    /\ carSpeed = maxSpeed

\* the colour changes a signal may make over one step
C29_InOrder(before, after) ==
    \/ after = before
    \/ before = "Green" /\ after = "Yellow"
    \/ before = "Yellow" /\ after = "Red"
    \/ before = "Red" /\ after = "Green"

\* the claim as made: the signals change in the order Green, Yellow, Red,
\* Green, and an approach turns Green only on a step where the other approach
\* is Red both before and after
C29_GreenWhileOtherRed ==
    [][/\ C29_InOrder(NS_Signal, NS_Signal')
       /\ C29_InOrder(WE_Signal, WE_Signal')
       /\ (NS_Signal # "Green" /\ NS_Signal' = "Green") =>
              (WE_Signal = "Red" /\ WE_Signal' = "Red")
       /\ (WE_Signal # "Green" /\ WE_Signal' = "Green") =>
              (NS_Signal = "Red" /\ NS_Signal' = "Red")]_vars

\* the signals over one step: each changes only in the order Green, Yellow,
\* Red, Green, only on a tick, and one turns Green on the tick on which the
\* other goes from Yellow to Red
C29_SignalStep ==
    /\ C29_InOrder(NS_Signal, NS_Signal')
    /\ C29_InOrder(WE_Signal, WE_Signal')
    /\ (NS_Signal' # NS_Signal \/ WE_Signal' # WE_Signal) => nTicks' # nTicks
    /\ (NS_Signal # "Green" /\ NS_Signal' = "Green") =>
           (WE_Signal = "Yellow" /\ WE_Signal' = "Red")
    /\ (WE_Signal # "Green" /\ WE_Signal' = "Green") =>
           (NS_Signal = "Yellow" /\ NS_Signal' = "Red")

\* C29 (amended): each approach's signal changes colour only in the order
\* Green -> Yellow -> Red -> Green, never Green to Red, Red to Yellow or
\* Yellow to Green, and an approach turns Green only on a tick where the
\* other approach is Yellow before and Red after.
C29_SignalOrder == [][C29_SignalStep]_vars

\* the tick that ends the second cycle: north-south has just turned Green
\* again and west-east Red, after west-east had its Green
C29_Witness ==
    /\ lastOp = "tick"
    /\ nTicks = 2 * CycleTicks
    /\ counter = 0
    /\ NS_Signal = "Green"
    /\ WE_Signal = "Red"

\* the longest an approach stays Red, in ticks
RedLimit == redTime \div updateInterval

\* C30: under a fair timer no approach starves: an approach that is Red
\* becomes Green within at most redTime/updateInterval = 300 ticks, and each
\* approach is Green infinitely often, whatever input events are interleaved.
C30_NoStarvation ==
    /\ [](redTicks.NS < RedLimit /\ redTicks.WE < RedLimit)
    /\ (NS_Signal = "Red") ~> (NS_Signal = "Green")
    /\ (WE_Signal = "Red") ~> (WE_Signal = "Green")
    /\ []<>(NS_Signal = "Green")
    /\ []<>(WE_Signal = "Green")

\* north-south on the last tick of a Red, one tick short of the limit, with
\* input events in between
C30_Witness ==
    /\ lastOp = "tick"
    /\ nTicks = MaxFairTicks
    /\ nEvents > 0
    /\ NS_Signal = "Red"
    /\ redTicks.NS = RedLimit - 1

====
